---------------------------- MODULE Spec2Model ----------------------------
(***************************************************************************)
(* The tool-calling agent loop of src/main.py: POST /run-agent clears the  *)
(* process-wide store files_in_memory, seeds a transcript and alternates   *)
(* between a Completion Provider call and the execution of the tool calls  *)
(* the provider selected, until complete_task is called, compute_limit     *)
(* iterations are used up, or an exception leaves the loop.                *)
(*                                                                         *)
(* Python strings are TLA+ strings (Len, \o and SubSeq act on them), a     *)
(* Python dict is a function whose DOMAIN is its key set, a Python list is *)
(* a sequence.  The Completion Provider and the Content Fetch Provider are *)
(* the environment: their answers are drawn from small sets.               *)
(***************************************************************************)
EXTENDS Integers, Sequences, FiniteSets, TLC

VARIABLES
    workers,          \* the threads of the server's pool that serve requests
    files_in_memory,  \* main.py:42, the global dict (one per process)
    pc,               \* per worker: where its request stands
    compute_limit,    \* per worker: run_agent's parameter
    messages,         \* per worker: run_agent's local list (the transcript)
    iterations,       \* per worker: run_agent's local counter
    break_loop,       \* per worker: run_agent's local termination flag
    tool_calls,       \* per worker: response_message.tool_calls being processed
    idx,              \* per worker: position of the for loop in tool_calls
    calls,            \* per worker: client.chat.completions.create calls made
    left_by,          \* per worker: the statement that left the while loop
    response          \* per worker: what the HTTP caller received

vars == <<workers, files_in_memory, pc, compute_limit, messages, iterations,
          break_loop, tool_calls, idx, calls, left_by, response>>

locals == <<compute_limit, messages, iterations, break_loop, tool_calls, idx,
            calls, left_by, response>>

-----------------------------------------------------------------------------
(* Bounds of the model.                                                    *)

\* compute_limit is drawn from -1 .. MaxLimit
MaxLimit == 2
\* a provider response selects 1 .. MaxBatch tools
MaxBatch == 2
\* the provider selects at most MaxToolCalls tools in one run
MaxToolCalls == 3

Threads == {"A", "B"}

-----------------------------------------------------------------------------
(* Values.                                                                 *)

\* Python's None (the content of a response that carries only tool calls)
None == "<None>"

EmptyDict == [k \in {} |-> ""]

Keys == {"scraped_content.md", "notes.md"}
Contents == {"# A", "# B"}
Url == "https://example.com"
Prompt == "summarize page"
DefaultOutputFilePath == "scraped_content.md"

\* the (key, content) pairs the provider asks to write
Writes == {<<"scraped_content.md", "# A">>, <<"scraped_content.md", "# B">>,
           <<"notes.md", "# A">>}

Twice(s) == s \o s
\* 10 * 2^8 = 2560 characters
LongPage == Twice(Twice(Twice(Twice(Twice(Twice(Twice(Twice("0123456789"))))))))
ShortPage == "# Example Domain"
Pages == {ShortPage, LongPage}

\* scrape_url keeps content[:2000]
ScrapeLimit == 2000

Min(a, b) == IF a <= b THEN a ELSE b

\* Python's s[:n] for n >= 0
Slice(s, n) == SubSeq(s, 1, Min(Len(s), n))

-----------------------------------------------------------------------------
(* The JSON documents the Completion Provider sends as tool arguments, and *)
(* json.loads on them.  A document is its text; json.loads maps the text   *)
(* of a well-formed document to the dict it encodes and raises on any      *)
(* other text.                                                             *)

Reasoning == "r"

ScrapeArgsText(k) ==
    "{\"reasoning\": \"r\", \"url\": \"https://example.com\", \"output_file_path\": \""
        \o k \o "\"}"
ReadArgsText(k) == "{\"reasoning\": \"r\", \"file_path\": \"" \o k \o "\"}"
UpdateArgsText(k, c) ==
    "{\"reasoning\": \"r\", \"file_path\": \"" \o k \o "\", \"content\": \"" \o c \o "\"}"
CompleteArgsText == "{\"reasoning\": \"r\"}"
NoArgsText == "{}"
\* a document cut off before its closing brace
TruncatedArgsText == "{\"reasoning\": \"r\""

JsonDocs ==
    {<<ScrapeArgsText(k),
       [reasoning |-> Reasoning, url |-> Url, output_file_path |-> k]>> : k \in Keys}
    \cup {<<ReadArgsText(k), [reasoning |-> Reasoning, file_path |-> k]>> : k \in Keys}
    \cup {<<UpdateArgsText(kc[1], kc[2]),
            [reasoning |-> Reasoning, file_path |-> kc[1], content |-> kc[2]]>> :
          kc \in Keys \X Contents}
    \cup {<<CompleteArgsText, [reasoning |-> Reasoning]>>, <<NoArgsText, EmptyDict>>}

\* json.loads(text): [ok |-> TRUE, value |-> dict], or ok = FALSE for JSONDecodeError
json_loads(text) ==
    IF \E d \in JsonDocs : d[1] = text
    THEN [ok |-> TRUE, value |-> (CHOOSE d \in JsonDocs : d[1] = text)[2]]
    ELSE [ok |-> FALSE, value |-> EmptyDict]

-----------------------------------------------------------------------------
(* The tools.  Each takes the store and returns the tool's result string   *)
(* and the store it leaves.                                                *)

\* an assignment that leaves the assigned key alone in the store
DictSet_DropsOthers(files, key, content) == [k \in {key} |-> content]

\* files_in_memory[key] = content
DictSet(files, key, content) ==
    [k \in DOMAIN files \cup {key} |-> IF k = key THEN content ELSE files[k]]

\* files_in_memory.get(key, "")
DictGet(files, key) == IF key \in DOMAIN files THEN files[key] ELSE ""

\* What firecrawl_app.scrape_url may do: raise, answer without "markdown"
\* (an error payload), or answer with the page's markdown.
FetchOutcomes ==
    {[raises |-> TRUE, response |-> EmptyDict],
     [raises |-> FALSE, response |-> [error |-> "Payment required"]]}
    \cup {[raises |-> FALSE, response |-> [markdown |-> p]] : p \in Pages}

\* a scrape that stores the whole page and limits only what it returns
scrape_url_StoresWhole(files, url, output_file_path, fetch) ==
    IF fetch.raises
    THEN [result |-> "", files |-> files]
    ELSE IF "markdown" \in DOMAIN fetch.response
         THEN [result |-> Slice(fetch.response.markdown, ScrapeLimit),
               files |-> DictSet(files, output_file_path, fetch.response.markdown)]
         ELSE [result |-> "", files |-> files]

\* a scrape that stores the empty string when the fetch brings no content
scrape_url_StoresOnError(files, url, output_file_path, fetch) ==
    IF ~fetch.raises /\ "markdown" \in DOMAIN fetch.response
    THEN LET limited_content == Slice(fetch.response.markdown, ScrapeLimit)
         IN  [result |-> limited_content,
              files |-> DictSet(files, output_file_path, limited_content)]
    ELSE [result |-> "", files |-> DictSet(files, output_file_path, "")]

scrape_url(files, url, output_file_path, fetch) ==
    IF fetch.raises
    THEN [result |-> "", files |-> files]
    ELSE IF "markdown" \in DOMAIN fetch.response
         THEN LET limited_content == Slice(fetch.response.markdown, ScrapeLimit)
              IN  [result |-> limited_content,
                   files |-> DictSet(files, output_file_path, limited_content)]
         ELSE [result |-> "", files |-> files]

\* a read that leaves the key it looked up in the store
read_local_file_CreatesKey(files, file_path) ==
    [result |-> DictGet(files, file_path),
     files |-> DictSet(files, file_path, DictGet(files, file_path))]

read_local_file(files, file_path) ==
    [result |-> DictGet(files, file_path), files |-> files]

\* a write that keeps the content of a key that exists
update_local_file_KeepsExisting(files, file_path, content) ==
    [result |-> "File updated successfully",
     files |-> IF file_path \in DOMAIN files THEN files
               ELSE DictSet(files, file_path, content)]

update_local_file(files, file_path, content) ==
    [result |-> "File updated successfully",
     files |-> DictSet(files, file_path, content)]

complete_task(files) ==
    [result |-> "Task completed successfully", files |-> files]

-----------------------------------------------------------------------------
(* The dispatch of one tool call, main.py:291-307.                         *)

ScrapeParams == {"reasoning", "url", "output_file_path"}
ReadParams == {"reasoning", "file_path"}
UpdateParams == {"reasoning", "file_path", "content"}
CompleteParams == {"reasoning"}

KnownTools == {"ScrapeUrlArgs", "ReadLocalFileArgs", "UpdateLocalFileArgs",
               "CompleteTaskArgs"}

\* f(**function_args) binds when the dict's keys are exactly f's parameters
\* (none has a default)
Binds(params, function_args) == DOMAIN function_args = params

\* str(e) of the TypeError a call f(**function_args) raises when it does not bind
TypeErrorText(f, params, function_args) ==
    IF DOMAIN function_args \ params # {}
    THEN f \o "() got an unexpected keyword argument"
    ELSE f \o "() missing required positional arguments"

\* the except branch, main.py:304-307
Caught(files, function_name, text) ==
    [result |-> "Error executing " \o function_name \o ": " \o text,
     files |-> files, break_loop |-> FALSE]

\* One pass through main.py:291-307: the tool's result (or the error text), the
\* store it leaves and whether break_loop was set.
Dispatch(files, function_name, function_args, fetch) ==
    IF function_name = "ScrapeUrlArgs"
    THEN IF Binds(ScrapeParams, function_args)
         THEN LET out == scrape_url(files, function_args.url,
                                    function_args.output_file_path, fetch)
              IN  [result |-> out.result, files |-> out.files, break_loop |-> FALSE]
         ELSE Caught(files, function_name,
                     TypeErrorText("scrape_url", ScrapeParams, function_args))
    ELSE IF function_name = "ReadLocalFileArgs"
    THEN IF Binds(ReadParams, function_args)
         THEN LET out == read_local_file(files, function_args.file_path)
              IN  [result |-> out.result, files |-> out.files, break_loop |-> FALSE]
         ELSE Caught(files, function_name,
                     TypeErrorText("read_local_file", ReadParams, function_args))
    ELSE IF function_name = "UpdateLocalFileArgs"
    THEN IF Binds(UpdateParams, function_args)
         THEN LET out == update_local_file(files, function_args.file_path,
                                           function_args.content)
              IN  [result |-> out.result, files |-> out.files, break_loop |-> FALSE]
         ELSE Caught(files, function_name,
                     TypeErrorText("update_local_file", UpdateParams, function_args))
    ELSE IF function_name = "CompleteTaskArgs"
    THEN IF Binds(CompleteParams, function_args)
         THEN LET out == complete_task(files)
              IN  [result |-> out.result, files |-> out.files, break_loop |-> TRUE]
         ELSE Caught(files, function_name,
                     TypeErrorText("complete_task", CompleteParams, function_args))
    ELSE Caught(files, function_name, "Unknown function: " \o function_name)

-----------------------------------------------------------------------------
(* What the Completion Provider may answer.                                *)

\* the name and the arguments of the tool selections the provider may send
ToolShapes ==
    {[name |-> "ScrapeUrlArgs", arguments |-> ScrapeArgsText(DefaultOutputFilePath)]}
    \cup {[name |-> "ReadLocalFileArgs", arguments |-> ReadArgsText(k)] : k \in Keys}
    \cup {[name |-> "UpdateLocalFileArgs", arguments |-> UpdateArgsText(kc[1], kc[2])] :
          kc \in Writes}
    \cup {[name |-> "CompleteTaskArgs", arguments |-> CompleteArgsText],
          [name |-> "CompleteTaskArgs", arguments |-> NoArgsText],
          [name |-> "DeleteFileArgs", arguments |-> CompleteArgsText],
          [name |-> "DeleteFileArgs", arguments |-> TruncatedArgsText],
          [name |-> "ReadLocalFileArgs", arguments |-> TruncatedArgsText]}

Batches(most) == UNION {[1..n -> ToolShapes] : n \in 1..Min(MaxBatch, most)}

\* response_message.content of a response that selects no tool: None or a text
AssistantContents == {None, "", "The page is summarized."}
\* response_message.content of a response that selects tools: the tool calls
\* come without text
ToolCallContents == {None}

\* the provider gives every tool call of a run its own id
CallId(iteration, i) == "call_" \o ToString(iteration) \o "_" \o ToString(i)

\* response_message.tool_calls for a batch sent in the given iteration
ToolCallsOf(batch, iteration) ==
    [i \in 1..Len(batch) |->
        [id |-> CallId(iteration, i), type |-> "function",
         function |-> [name |-> batch[i].name, arguments |-> batch[i].arguments]]]

-----------------------------------------------------------------------------
(* run_agent, main.py:239-324, and run_agent_endpoint, main.py:335-346.    *)

\* AGENT_PROMPT with its three placeholders replaced (the fixed text is cut short)
FormattedPrompt(url, prompt, output_file_path) ==
    "<user-prompt>" \o prompt \o "</user-prompt><url>" \o url
        \o "</url><output-file-path>" \o output_file_path \o "</output-file-path>"

\* the number of tool calls the provider has selected in a transcript
RECURSIVE Selected(_)
Selected(msgs) ==
    IF msgs = <<>> THEN 0
    ELSE Selected(Tail(msgs))
         + (IF "tool_calls" \in DOMAIN Head(msgs) THEN Len(Head(msgs).tool_calls) ELSE 0)

\* main.py:249
SeedMessages(url, prompt, output_file_path) ==
    <<[role |-> "user", content |-> FormattedPrompt(url, prompt, output_file_path)]>>

\* the test with its bound off by one
WhileCondition_OffByOne(its, limit, brk) == its <= limit /\ ~brk

\* the test without the budget
WhileCondition_NoBudget(its, limit, brk) == ~brk

\* main.py:253
WhileCondition(its, limit, brk) == its < limit /\ ~brk

\* main.py:264: response_message.content or ""
ContentOrEmpty(content) == IF content = None \/ content = "" THEN "" ELSE content

\* main.py:267: the message appended for every response
AssistantMessage(content) == [role |-> "assistant", content |-> ContentOrEmpty(content)]

\* main.py:271-285: the message appended when the response selects tools
ToolCallsMessage(content, calls_) ==
    [role |-> "assistant", content |-> content, tool_calls |-> calls_]

\* the transcript cut back to its first message before the response is added
AfterResponse_KeepsFirstOnly(msgs, content, calls_) ==
    <<msgs[1], AssistantMessage(content), ToolCallsMessage(content, calls_)>>

\* main.py:263-285: the transcript after a response that selects tools
AfterResponse(msgs, content, calls_) ==
    msgs \o <<AssistantMessage(content), ToolCallsMessage(content, calls_)>>

\* the result message correlated by the tool's name instead of the call's id
ToolMessage_NameAsId(tool_call, result) ==
    [role |-> "tool", tool_call_id |-> tool_call.function.name,
     name |-> tool_call.function.name, content |-> result]

\* main.py:308-313
ToolMessage(tool_call, result) ==
    [role |-> "tool", tool_call_id |-> tool_call.id,
     name |-> tool_call.function.name, content |-> result]

\* main.py:321-324
RunResult(msgs, files) == [messages |-> msgs, files_in_memory |-> files]

\* main.py:337-346: the endpoint answers with run_agent's result, or with
\* HTTP 500 when run_agent raised
EndpointResponse(raised, result, detail) ==
    IF raised THEN [status |-> 500, detail |-> detail]
              ELSE [status |-> 200, body |-> result]

NoResponse == [status |-> 0]

InitLocals ==
    /\ pc = [r \in Threads |-> "idle"]
    /\ compute_limit = [r \in Threads |-> 0]
    /\ messages = [r \in Threads |-> <<>>]
    /\ iterations = [r \in Threads |-> 0]
    /\ break_loop = [r \in Threads |-> FALSE]
    /\ tool_calls = [r \in Threads |-> <<>>]
    /\ idx = [r \in Threads |-> 0]
    /\ calls = [r \in Threads |-> 0]
    /\ left_by = [r \in Threads |-> "none"]
    /\ response = [r \in Threads |-> NoResponse]

\* one request at a time: a single worker thread
Init ==
    /\ workers = {"A"}
    /\ files_in_memory = EmptyDict
    /\ InitLocals

\* run_agent never lets an exception out (its loop body is one try block), so
\* the endpoint's except branch is never taken
Respond(r, how) ==
    /\ pc' = [pc EXCEPT ![r] = "responded"]
    /\ left_by' = [left_by EXCEPT ![r] = how]
    /\ response' = [response EXCEPT ![r] =
           EndpointResponse(FALSE, RunResult(messages'[r], files_in_memory'), "")]

\* a run whose counter, flag and transcript are module-level objects like the
\* store, so that its start resets them for every worker
Request_SharedLocals(r, limit) ==
    /\ r \in workers
    /\ pc[r] = "idle"
    /\ files_in_memory' = EmptyDict
    /\ compute_limit' = [compute_limit EXCEPT ![r] = limit]
    /\ messages' = [q \in Threads |->
                       IF q = r \/ pc[q] \in {"while", "for"}
                       THEN SeedMessages(Url, Prompt, DefaultOutputFilePath)
                       ELSE messages[q]]
    /\ iterations' = [q \in Threads |->
                         IF q = r \/ pc[q] \in {"while", "for"} THEN 0 ELSE iterations[q]]
    /\ break_loop' = [q \in Threads |->
                         IF q = r \/ pc[q] \in {"while", "for"} THEN FALSE ELSE break_loop[q]]
    /\ pc' = [pc EXCEPT ![r] = "while"]
    /\ UNCHANGED <<workers, tool_calls, idx, calls, left_by, response>>

\* a run that starts on the store as the run before left it
Request_KeepsStore(r, limit) ==
    /\ r \in workers
    /\ pc[r] = "idle"
    /\ compute_limit' = [compute_limit EXCEPT ![r] = limit]
    /\ messages' = [messages EXCEPT ![r] = SeedMessages(Url, Prompt, DefaultOutputFilePath)]
    /\ iterations' = [iterations EXCEPT ![r] = 0]
    /\ break_loop' = [break_loop EXCEPT ![r] = FALSE]
    /\ pc' = [pc EXCEPT ![r] = "while"]
    /\ UNCHANGED <<workers, files_in_memory, tool_calls, idx, calls, left_by, response>>

\* POST /run-agent arrives: main.py:241-251
Request(r, limit) ==
    /\ r \in workers
    /\ pc[r] = "idle"
    /\ files_in_memory' = EmptyDict
    /\ compute_limit' = [compute_limit EXCEPT ![r] = limit]
    /\ messages' = [messages EXCEPT ![r] = SeedMessages(Url, Prompt, DefaultOutputFilePath)]
    /\ iterations' = [iterations EXCEPT ![r] = 0]
    /\ break_loop' = [break_loop EXCEPT ![r] = FALSE]
    /\ pc' = [pc EXCEPT ![r] = "while"]
    /\ UNCHANGED <<workers, tool_calls, idx, calls, left_by, response>>

\* main.py:253 is false: the loop ends and run_agent returns
LoopEnds(r) ==
    /\ pc[r] = "while"
    /\ ~WhileCondition(iterations[r], compute_limit[r], break_loop[r])
    /\ UNCHANGED <<workers, files_in_memory, compute_limit, messages, iterations,
                   break_loop, tool_calls, idx, calls>>
    /\ Respond(r, "condition")

\* main.py:253-257: the loop goes on and the provider is called
EntersIteration(r) ==
    /\ pc[r] = "while"
    /\ WhileCondition(iterations[r], compute_limit[r], break_loop[r])
    /\ iterations' = [iterations EXCEPT ![r] = @ + 1]
    /\ calls' = [calls EXCEPT ![r] = @ + 1]

\* client.chat.completions.create raises: main.py:316-318
ProviderRaises(r) ==
    /\ EntersIteration(r)
    /\ UNCHANGED <<workers, files_in_memory, compute_limit, messages, break_loop,
                   tool_calls, idx>>
    /\ Respond(r, "break")

\* the response selects no tool: main.py:263-267, 314-318
ProviderNoTools(r, content) ==
    /\ EntersIteration(r)
    /\ messages' = [messages EXCEPT ![r] = Append(@, AssistantMessage(content))]
    /\ UNCHANGED <<workers, files_in_memory, compute_limit, break_loop, tool_calls, idx>>
    /\ Respond(r, "break")

\* the response selects tools: main.py:263-286
ProviderTools(r, content, batch) ==
    /\ EntersIteration(r)
    /\ LET calls_ == ToolCallsOf(batch, iterations'[r])
       IN  /\ messages' = [messages EXCEPT ![r] = AfterResponse(@, content, calls_)]
           /\ tool_calls' = [tool_calls EXCEPT ![r] = calls_]
    /\ idx' = [idx EXCEPT ![r] = 1]
    /\ pc' = [pc EXCEPT ![r] = "for"]
    /\ UNCHANGED <<workers, files_in_memory, compute_limit, break_loop, left_by, response>>

\* json.loads raises on the arguments of the next tool call: main.py:288, 316-318
ArgumentsUndecodable(r) ==
    /\ pc[r] = "for"
    /\ ~json_loads(tool_calls[r][idx[r]].function.arguments).ok
    /\ UNCHANGED <<workers, files_in_memory, compute_limit, messages, iterations,
                   break_loop, tool_calls, idx, calls>>
    /\ Respond(r, "break")

\* one pass of the for loop: main.py:286-313
ToolCall(r) ==
    /\ pc[r] = "for"
    /\ LET tool_call == tool_calls[r][idx[r]]
           function_name == tool_call.function.name
           decoded == json_loads(tool_call.function.arguments)
       IN  /\ decoded.ok
           /\ \E fetch \in IF function_name = "ScrapeUrlArgs"
                           THEN FetchOutcomes ELSE {[raises |-> TRUE, response |-> EmptyDict]} :
                 LET out == Dispatch(files_in_memory, function_name, decoded.value, fetch)
                 IN  /\ files_in_memory' = out.files
                     /\ break_loop' = [break_loop EXCEPT ![r] = @ \/ out.break_loop]
                     /\ messages' = [messages EXCEPT ![r] =
                                        Append(@, ToolMessage(tool_call, out.result))]
    /\ idx' = [idx EXCEPT ![r] = @ + 1]
    /\ pc' = [pc EXCEPT ![r] = IF idx[r] = Len(tool_calls[r]) THEN "while" ELSE "for"]
    /\ UNCHANGED <<workers, compute_limit, iterations, tool_calls, calls, left_by, response>>

\* the caller has its response; the request's locals are gone
Deliver(r) ==
    /\ pc[r] = "responded"
    /\ pc' = [pc EXCEPT ![r] = "idle"]
    /\ compute_limit' = [compute_limit EXCEPT ![r] = 0]
    /\ messages' = [messages EXCEPT ![r] = <<>>]
    /\ iterations' = [iterations EXCEPT ![r] = 0]
    /\ break_loop' = [break_loop EXCEPT ![r] = FALSE]
    /\ tool_calls' = [tool_calls EXCEPT ![r] = <<>>]
    /\ idx' = [idx EXCEPT ![r] = 0]
    /\ calls' = [calls EXCEPT ![r] = 0]
    /\ left_by' = [left_by EXCEPT ![r] = "none"]
    /\ response' = [response EXCEPT ![r] = NoResponse]
    /\ UNCHANGED <<workers, files_in_memory>>

Next ==
    \E r \in Threads :
        \/ \E limit \in -1..MaxLimit : Request(r, limit)
        \/ LoopEnds(r)
        \/ ProviderRaises(r)
        \/ \E content \in AssistantContents : ProviderNoTools(r, content)
        \/ /\ pc[r] = "while"
           /\ \E content \in ToolCallContents,
                 batch \in Batches(MaxToolCalls - Selected(messages[r])) :
                 ProviderTools(r, content, batch)
        \/ ArgumentsUndecodable(r)
        \/ ToolCall(r)
        \/ Deliver(r)

Spec == Init /\ [][Next]_vars

\* the state of the run a worker is serving (spec 4.1): DONE when the loop ended
\* at its test with the termination flag set, FAILED when it ended otherwise
RunState(r) ==
    IF pc[r] \in {"while", "for"} THEN "RUNNING"
    ELSE IF pc[r] = "responded"
         THEN IF left_by[r] = "condition" /\ break_loop[r] THEN "DONE" ELSE "FAILED"
         ELSE "NONE"

-----------------------------------------------------------------------------
(* Reading a transcript.                                                   *)

Max(a, b) == IF a >= b THEN a ELSE b

\* the positions of the assistant messages that carry tool calls
BatchPositions(msgs) == {i \in 1..Len(msgs) : "tool_calls" \in DOMAIN msgs[i]}

\* the positions of the tool-result messages
ResultPositions(msgs) == {j \in 1..Len(msgs) : msgs[j].role = "tool"}

\* the positions of the tool-result messages that carry a given id
ResultsFor(msgs, id) == {j \in ResultPositions(msgs) : msgs[j].tool_call_id = id}

\* the positions of the messages appended for a provider response
AssistantPositions(msgs) == {i \in 1..Len(msgs) : msgs[i].role = "assistant"}

SetMax(S) == CHOOSE x \in S : \A y \in S : y <= x

\* the tool call a tool-result message answers
CallOf(msgs, j) ==
    LET i == CHOOSE i \in BatchPositions(msgs) :
                 \E k \in 1..Len(msgs[i].tool_calls) :
                     msgs[i].tool_calls[k].id = msgs[j].tool_call_id
        k == CHOOSE k \in 1..Len(msgs[i].tool_calls) :
                 msgs[i].tool_calls[k].id = msgs[j].tool_call_id
    IN  msgs[i].tool_calls[k]

\* a tool call the dispatch runs as the named tool with its arguments bound
Valid(tool_call, name, params) ==
    /\ tool_call.function.name = name
    /\ json_loads(tool_call.function.arguments).ok
    /\ Binds(params, json_loads(tool_call.function.arguments).value)

ArgsOf(tool_call) == json_loads(tool_call.function.arguments).value

-----------------------------------------------------------------------------
(* The claims.                                                             *)

\* every tool call of the batch at position i has exactly one result after it
BatchFinished(msgs, i) ==
    \A k \in 1..Len(msgs[i].tool_calls) :
        /\ Cardinality(ResultsFor(msgs, msgs[i].tool_calls[k].id)) = 1
        /\ \A j \in ResultsFor(msgs, msgs[i].tool_calls[k].id) : j > i

\* the batch at position i holds a complete-task invocation (well-formed
\* arguments, as the tool schema requires)
HasComplete(msgs, i) ==
    \E k \in 1..Len(msgs[i].tool_calls) :
        Valid(msgs[i].tool_calls[k], "CompleteTaskArgs", CompleteParams)

\* C1: once a complete-task invocation is received in an iteration, the run
\* ends in DONE: the termination flag is set, the batch of that iteration is
\* finished (every invocation of it has its result) and that iteration's
\* response is the last the provider was asked for.
C1_CompleteEndsRunDone ==
    \A r \in Threads :
        pc[r] = "responded" =>
            \A i \in BatchPositions(messages[r]) :
                HasComplete(messages[r], i) =>
                    /\ break_loop[r]
                    /\ RunState(r) = "DONE"
                    /\ BatchFinished(messages[r], i)
                    /\ i = SetMax(AssistantPositions(messages[r]))

\* the transcript the caller received
Returned(r) == response[r].body.messages

\* the last tool-result message of a transcript that has one
LastResult(msgs) == msgs[SetMax(ResultPositions(msgs))]

\* the ids of the complete-task invocations of a transcript
CompleteIds(msgs) ==
    {msgs[i].tool_calls[k].id :
        <<i, k>> \in {ik \in BatchPositions(msgs) \X (1..MaxBatch) :
                        /\ ik[2] <= Len(msgs[ik[1]].tool_calls)
                        /\ msgs[ik[1]].tool_calls[ik[2]].function.name = "CompleteTaskArgs"}}

\* C2 as stated: in every run that ends in DONE the last tool-result message
\* of the returned transcript carries the id of the complete-task invocation,
\* whatever the shape of the batch.
C2_LastResultIsCompleteAlways ==
    \A r \in Threads :
        RunState(r) = "DONE" =>
            /\ ResultPositions(Returned(r)) # {}
            /\ LastResult(Returned(r)).tool_call_id \in CompleteIds(Returned(r))

\* C2 amended: in every run that ends in DONE the returned transcript holds
\* the tool-result of the complete-task invocation (its id, the confirmation
\* text), and the last message of the transcript is the tool-result of the last
\* invocation of the same batch, the final one: the complete-task invocation's
\* own when complete is the last invocation of its batch.  (Whenever the
\* termination flag was set, also in a run that an exception ended, the last
\* tool-result is complete's or that of a later invocation of its batch.)
C2_LastResultIsLastOfCompleteBatch ==
    \A r \in Threads :
        (pc[r] = "responded" /\ break_loop[r]) =>
            LET msgs == Returned(r)
                i == SetMax(BatchPositions(msgs))
                batch == msgs[i].tool_calls
                last == SetMax(ResultPositions(msgs))
            IN  /\ BatchPositions(msgs) # {}
                /\ ResultPositions(msgs) # {}
                /\ last = Len(msgs)
                /\ last - i \in 1..Len(batch)
                /\ msgs[last].tool_call_id = batch[last - i].id
                /\ \E k \in 1..(last - i) :
                      /\ Valid(batch[k], "CompleteTaskArgs", CompleteParams)
                      /\ msgs[i + k] = [role |-> "tool", tool_call_id |-> batch[k].id,
                                        name |-> "CompleteTaskArgs",
                                        content |-> "Task completed successfully"]
                /\ RunState(r) = "DONE" =>
                      /\ last = i + Len(batch)
                      /\ (batch[Len(batch)].function.name = "CompleteTaskArgs"
                            => msgs[last].tool_call_id \in CompleteIds(msgs))

\* a DONE run whose final batch has an invocation after complete
C2_Witness ==
    \E r \in Threads :
        /\ RunState(r) = "DONE"
        /\ LET msgs == Returned(r)
               batch == msgs[SetMax(BatchPositions(msgs))].tool_calls
           IN  /\ Len(batch) = 2
               /\ batch[1].function.name = "CompleteTaskArgs"
               /\ batch[2].function.name = "ReadLocalFileArgs"


\* C3: a run whose iteration counter reaches compute_limit without any
\* complete-task invocation received ends FAILED, after exactly compute_limit
\* provider calls (none when compute_limit is not positive), whatever the last
\* iteration's tools returned; and once the counter has reached compute_limit
\* the loop can only end, the provider is not called again.
C3_BudgetExhaustedFails ==
    \A r \in Threads :
        /\ (pc[r] = "responded" /\ iterations[r] >= compute_limit[r]
                /\ CompleteIds(messages[r]) = {})
              => /\ RunState(r) = "FAILED"
                 /\ calls[r] = Max(compute_limit[r], 0)
        /\ (pc[r] = "while" /\ iterations[r] >= compute_limit[r])
              => /\ ENABLED LoopEnds(r)
                 /\ ~ENABLED EntersIteration(r)
                 /\ ~ENABLED ProviderRaises(r)

\* compute_limit = 1, the only response selected scrape alone, the scrape
\* succeeded, and the run has ended
C3_Witness ==
    \E r \in Threads :
        /\ pc[r] = "responded"
        /\ compute_limit[r] = 1
        /\ calls[r] = 1
        /\ Len(messages[r]) = 4
        /\ "tool_calls" \in DOMAIN messages[r][3]
        /\ Len(messages[r][3].tool_calls) = 1
        /\ messages[r][3].tool_calls[1].function.name = "ScrapeUrlArgs"
        /\ messages[r][4].role = "tool"
        /\ messages[r][4].content = ShortPage
        /\ RunState(r) = "FAILED"

\* C4: the number of provider calls made equals the iteration counter and
\* never exceeds a compute_limit of zero or more; with compute_limit zero or
\* negative no provider call is made and the transcript is the seed message.
C4_CallsWithinBudget ==
    \A r \in Threads :
        pc[r] # "idle" =>
            /\ calls[r] = iterations[r]
            /\ compute_limit[r] >= 0 => calls[r] <= compute_limit[r]
            /\ compute_limit[r] <= 0 =>
                  /\ calls[r] = 0
                  /\ messages[r] = SeedMessages(Url, Prompt, DefaultOutputFilePath)
                  /\ Len(messages[r]) = 1

\* a run with a negative compute_limit has ended
C4_Witness ==
    \E r \in Threads :
        /\ pc[r] = "responded"
        /\ compute_limit[r] < 0
        /\ Returned(r) = SeedMessages(Url, Prompt, DefaultOutputFilePath)

\* C5: at every provider call and at run end, every tool invocation listed
\* in an assistant message of the transcript has exactly one tool-result
\* message with its id, after that assistant message and before the messages
\* of the next provider response.
C5_EveryInvocationAnswered ==
    \A r \in Threads :
        pc[r] \in {"while", "responded"} =>
            \A i \in BatchPositions(messages[r]) :
                /\ BatchFinished(messages[r], i)
                /\ \A k \in 1..Len(messages[r][i].tool_calls) :
                      \A j \in ResultsFor(messages[r], messages[r][i].tool_calls[k].id) :
                          \A n \in AssistantPositions(messages[r]) : n > i => j < n

\* C6: an iteration whose response selects k tools grows the transcript by
\* 1 + k messages (one assistant message, k tool results in the provider's
\* order); with compute_limit = 1 and one response selecting only complete
\* the run ends DONE after one provider call with a transcript of 3 messages.
C6_IterationGrowsByOnePlusK ==
    \A r \in Threads :
        /\ pc[r] = "while" =>
              Len(messages[r]) = 1 + iterations[r] + Selected(messages[r])
        /\ (RunState(r) = "DONE" /\ compute_limit[r] = 1 /\ Selected(messages[r]) = 1)
              => /\ calls[r] = 1
                 /\ Len(Returned(r)) = 3


\* the tool call the for loop of a worker is at
CurrentCall(r) == tool_calls[r][idx[r]]

\* the worker's for loop has left the tool call it was at
LeavesCall(r) == pc'[r] # "for" \/ idx'[r] # idx[r]

\* C7: a tool invocation whose name is none of the four known tools yields a
\* tool-result message with an error text for that invocation, sets no
\* termination flag, leaves the store unchanged, and the for loop goes on to
\* the next invocation of the batch (or, after the last, back to the loop test).
C7_UnknownToolIsRecorded ==
    [][\A r \in Threads :
          (pc[r] = "for" /\ CurrentCall(r).function.name \notin KnownTools
                /\ LeavesCall(r))
             => /\ messages'[r] = Append(messages[r],
                       [role |-> "tool", tool_call_id |-> CurrentCall(r).id,
                        name |-> CurrentCall(r).function.name,
                        content |-> "Error executing " \o CurrentCall(r).function.name
                                     \o ": Unknown function: "
                                     \o CurrentCall(r).function.name])
                /\ break_loop'[r] = break_loop[r]
                /\ files_in_memory' = files_in_memory
                /\ idx'[r] = idx[r] + 1
                /\ pc'[r] = IF idx[r] < Len(tool_calls[r]) THEN "for" ELSE "while"]_vars

\* C8: the HTTP caller receives a completed transcript (the run reached
\* DONE) or an explicit error payload (HTTP 500 with a detail); a FAILED run
\* is never answered as a success carrying its partial transcript.
C8_FailedRunIsAnError ==
    \A r \in Threads :
        pc[r] = "responded" =>
            IF RunState(r) = "DONE"
            THEN response[r].status = 200 /\ Returned(r) = messages[r]
            ELSE response[r].status = 500 /\ "detail" \in DOMAIN response[r]

\* the tool-result at position j answers a write (key and content bound)
IsWrite(msgs, j) == Valid(CallOf(msgs, j), "UpdateLocalFileArgs", UpdateParams)

\* the tool-result at position j answers a read of key k
IsRead(msgs, j, k) ==
    /\ Valid(CallOf(msgs, j), "ReadLocalFileArgs", ReadParams)
    /\ ArgsOf(CallOf(msgs, j)).file_path = k

\* the tool-result at position j answers a write or a scrape to key k
Touches(msgs, j, k) ==
    \/ /\ Valid(CallOf(msgs, j), "UpdateLocalFileArgs", UpdateParams)
       /\ ArgsOf(CallOf(msgs, j)).file_path = k
    \/ /\ Valid(CallOf(msgs, j), "ScrapeUrlArgs", ScrapeParams)
       /\ ArgsOf(CallOf(msgs, j)).output_file_path = k

\* C9: within one run and with no concurrent run, every read of key K that
\* follows a write of content C under K, with no write or scrape to K in
\* between, returns exactly C: on each of any number of reads, and the latest
\* write is the one that counts (overwrite).
C9_ReadReturnsLastWrite ==
    \A r \in Threads :
        \A w \in ResultPositions(messages[r]) :
            IsWrite(messages[r], w) =>
                LET k == ArgsOf(CallOf(messages[r], w)).file_path
                    c == ArgsOf(CallOf(messages[r], w)).content
                IN  \A j \in ResultPositions(messages[r]) :
                        (/\ w < j
                         /\ IsRead(messages[r], j, k)
                         /\ \A m \in ResultPositions(messages[r]) :
                               (w < m /\ m < j) => ~Touches(messages[r], m, k))
                            => messages[r][j].content = c

\* a write of K followed by two reads of K, both answered with the content
C9_Witness ==
    \E r \in Threads :
        \E w \in ResultPositions(messages[r]), j1 \in ResultPositions(messages[r]),
           j2 \in ResultPositions(messages[r]) :
            /\ w < j1 /\ j1 < j2
            /\ IsWrite(messages[r], w)
            /\ IsRead(messages[r], j1, ArgsOf(CallOf(messages[r], w)).file_path)
            /\ IsRead(messages[r], j2, ArgsOf(CallOf(messages[r], w)).file_path)
            /\ messages[r][j1].content = ArgsOf(CallOf(messages[r], w)).content
            /\ messages[r][j2].content = ArgsOf(CallOf(messages[r], w)).content
            /\ messages[r][j1].content \in Contents

\* C10: reading a key that is absent from the store returns the empty
\* string as a normal tool result (no error text, no exception: the for loop
\* goes on) and does not create the key.
C10_ReadAbsentKeyIsEmpty ==
    [][\A r \in Threads :
          (/\ pc[r] = "for"
           /\ Valid(CurrentCall(r), "ReadLocalFileArgs", ReadParams)
           /\ ArgsOf(CurrentCall(r)).file_path \notin DOMAIN files_in_memory
           /\ LeavesCall(r))
             => /\ messages'[r] = Append(messages[r],
                       [role |-> "tool", tool_call_id |-> CurrentCall(r).id,
                        name |-> "ReadLocalFileArgs", content |-> ""])
                /\ files_in_memory' = files_in_memory
                /\ break_loop'[r] = break_loop[r]
                /\ idx'[r] = idx[r] + 1
                /\ pc'[r] = IF idx[r] < Len(tool_calls[r]) THEN "for" ELSE "while"]_vars

\* the last message answers a read of a key that is still absent, with ""
C10_Witness ==
    \E r \in Threads :
        /\ pc[r] \in {"for", "while"}
        /\ ResultPositions(messages[r]) # {}
        /\ messages[r][Len(messages[r])].role = "tool"
        /\ messages[r][Len(messages[r])].content = ""
        /\ \E k \in Keys :
              /\ IsRead(messages[r], Len(messages[r]), k)
              /\ k \notin DOMAIN files_in_memory

\* the fetch answered with the markdown of page p
Fetched(p) == [raises |-> FALSE, response |-> [markdown |-> p]]

\* the fetches that bring no content: an exception, or a payload without
\* "markdown"
FailedFetches ==
    {fetch \in FetchOutcomes :
        fetch.raises \/ "markdown" \notin DOMAIN fetch.response}

\* the worker's for loop is at a scrape whose arguments bind
AtScrape(r) ==
    pc[r] = "for" /\ Valid(CurrentCall(r), "ScrapeUrlArgs", ScrapeParams)

\* C11: a scrape whose fetch succeeds with markdown of length n stores under
\* the output key, and returns as the tool result, exactly the first
\* min(n, 2000) characters of it: n <= 2000 stores the whole content,
\* n > 2000 stores a value of length exactly 2000.
C11_ScrapeStoresFirst2000 ==
    [][\A r \in Threads :
          AtScrape(r) =>
            LET K == ArgsOf(CurrentCall(r)).output_file_path
            IN  /\ \A p \in Pages :
                     LET out == Dispatch(files_in_memory, "ScrapeUrlArgs",
                                         ArgsOf(CurrentCall(r)), Fetched(p))
                     IN  /\ Len(out.result) = Min(Len(p), 2000)
                         /\ out.result = SubSeq(p, 1, Len(out.result))
                         /\ K \in DOMAIN out.files
                         /\ out.files[K] = out.result
                         /\ Len(p) <= 2000 => out.files[K] = p
                         /\ Len(p) > 2000 => Len(out.files[K]) = 2000
                /\ LeavesCall(r) =>
                     LET c == messages'[r][Len(messages'[r])].content
                     IN  \/ c = "" /\ files_in_memory' = files_in_memory
                         \/ \E p \in Pages :
                               /\ Len(c) = Min(Len(p), 2000)
                               /\ c = SubSeq(p, 1, Len(c))
                               /\ K \in DOMAIN files_in_memory'
                               /\ files_in_memory'[K] = c]_vars

\* the last message answers a scrape of the long page: 2000 characters of it
\* are the result and the stored value
C11_Witness ==
    \E r \in Threads :
        /\ pc[r] \in {"for", "while"}
        /\ messages[r][Len(messages[r])].role = "tool"
        /\ Valid(CallOf(messages[r], Len(messages[r])), "ScrapeUrlArgs", ScrapeParams)
        /\ Len(LongPage) > 2000
        /\ Len(messages[r][Len(messages[r])].content) = 2000
        /\ messages[r][Len(messages[r])].content = SubSeq(LongPage, 1, 2000)
        /\ files_in_memory[DefaultOutputFilePath] = messages[r][Len(messages[r])].content

\* C12: a failure of one tool call (unknown name, arguments that do not
\* decode or do not bind, a tool body that raises) is turned into an
\* error-text tool result inside the for loop: the call is answered with a
\* tool-result message and the run goes on, it never ends the run.
C12_ToolFailureNeverEndsRun ==
    [][\A r \in Threads :
          (pc[r] = "for" /\ LeavesCall(r))
             => /\ Len(messages'[r]) = Len(messages[r]) + 1
                /\ messages'[r][Len(messages'[r])].role = "tool"
                /\ messages'[r][Len(messages'[r])].tool_call_id = CurrentCall(r).id
                /\ SubSeq(messages'[r], 1, Len(messages[r])) = messages[r]
                /\ pc'[r] \in {"for", "while"}]_vars

\* C13: when a batch holds a complete-task invocation followed by further
\* invocations, every later invocation is still executed (its effect on the
\* store included) and gets its own tool-result message; the for loop leaves
\* the batch only after its last invocation.
C13_LaterInvocationsStillRun ==
    [][\A r \in Threads :
          (pc[r] = "for" /\ break_loop[r] /\ LeavesCall(r))
             => /\ json_loads(CurrentCall(r).function.arguments).ok
                /\ \E fetch \in FetchOutcomes :
                      LET out == Dispatch(files_in_memory, CurrentCall(r).function.name,
                                          ArgsOf(CurrentCall(r)), fetch)
                      IN  /\ files_in_memory' = out.files
                          /\ messages'[r] = Append(messages[r],
                                 [role |-> "tool", tool_call_id |-> CurrentCall(r).id,
                                  name |-> CurrentCall(r).function.name,
                                  content |-> out.result])
                /\ idx'[r] = idx[r] + 1
                /\ pc'[r] = IF idx[r] < Len(tool_calls[r]) THEN "for" ELSE "while"]_vars

\* C14: a provider call whose response selects no tool ends the run FAILED
\* in that iteration: no tool is executed, no further provider call is made
\* whatever budget remains, and nothing of the response is appended, so the
\* transcript is the one from before the provider call.
C14_NoToolSelectionLeavesTranscript ==
    [][\A r \in Threads :
          (pc[r] = "while" /\ calls'[r] = calls[r] + 1 /\ pc'[r] # "for")
             => /\ pc'[r] = "responded"
                /\ RunState(r)' = "FAILED"
                /\ files_in_memory' = files_in_memory
                /\ messages'[r] = messages[r]
                /\ Returned(r)' = messages[r]]_vars

\* C15: when the fetch raises or answers without content, scrape returns the
\* empty string as its tool result and leaves the store as it was (the output
\* key neither created nor overwritten), the tool-result message is recorded
\* and the run goes on with the next invocation or the loop test.
C15_FailedScrapeLeavesStore ==
    [][\A r \in Threads :
          AtScrape(r) =>
            /\ \A fetch \in FailedFetches :
                  LET out == Dispatch(files_in_memory, "ScrapeUrlArgs",
                                      ArgsOf(CurrentCall(r)), fetch)
                  IN  /\ out.result = ""
                      /\ out.files = files_in_memory
                      /\ ~out.break_loop
            /\ LeavesCall(r) =>
                  /\ Len(messages'[r]) = Len(messages[r]) + 1
                  /\ LET m == messages'[r][Len(messages'[r])]
                     IN  /\ m.role = "tool"
                         /\ m.tool_call_id = CurrentCall(r).id
                         /\ m.name = "ScrapeUrlArgs"
                         /\ m.content = "" => files_in_memory' = files_in_memory
                  /\ break_loop'[r] = break_loop[r]
                  /\ idx'[r] = idx[r] + 1
                  /\ pc'[r] = IF idx[r] < Len(tool_calls[r]) THEN "for" ELSE "while"]_vars

\* the last message answers a scrape with the empty string, and the output
\* key still holds what an earlier write put there
C15_Witness ==
    \E r \in Threads :
        /\ pc[r] \in {"for", "while"}
        /\ messages[r][Len(messages[r])].role = "tool"
        /\ Valid(CallOf(messages[r], Len(messages[r])), "ScrapeUrlArgs", ScrapeParams)
        /\ messages[r][Len(messages[r])].content = ""
        /\ DefaultOutputFilePath \in DOMAIN files_in_memory
        /\ files_in_memory[DefaultOutputFilePath] \in Contents

\* s is the beginning of t, message for message
IsPrefix(s, t) == Len(s) <= Len(t) /\ SubSeq(t, 1, Len(s)) = s

\* C16: the transcript is append-only within a run: it starts as exactly
\* one user message, and at every later step of the run (the steps that end it
\* on an error path included) the earlier transcript is an unmodified prefix
\* of the current one, which is also the one returned.
C16_TranscriptAppendOnly ==
    [][\A r \in Threads :
          /\ (pc[r] = "idle" /\ pc'[r] # "idle")
                => /\ Len(messages'[r]) = 1
                   /\ messages'[r][1].role = "user"
          /\ pc[r] \in {"while", "for"}
                => /\ IsPrefix(messages[r], messages'[r])
                   /\ pc'[r] = "responded" => IsPrefix(messages[r], Returned(r)')]_vars

\* a run ended by the outer except in its second iteration: the transcript
\* still begins with the user message and the first iteration's messages
C16_Witness ==
    \E r \in Threads :
        /\ pc[r] = "responded"
        /\ left_by[r] = "break"
        /\ iterations[r] = 2
        /\ Len(messages[r]) >= 5
        /\ messages[r][1].role = "user"
        /\ messages[r][4].role = "tool"
        /\ Returned(r) = messages[r]

\* the worker keeps taking steps: every provider call and tool call returns
FairSpec == Spec /\ WF_vars(Next)

\* the run a worker is serving has got an answer to every tool call it was given
AllBatchesFinished(msgs) ==
    \A i \in BatchPositions(msgs) : BatchFinished(msgs, i)

\* how the run a worker has answered came to its end
StoppedBy(r) ==
    IF left_by[r] = "condition"
    THEN IF break_loop[r] THEN "complete" ELSE "budget"
    ELSE IF AllBatchesFinished(messages[r]) THEN "provider" ELSE "tool"

\* C17: every run terminates whatever the provider does and whatever the
\* compute_limit: it reaches DONE or FAILED after at most compute_limit
\* provider calls, and it stops only by a complete-task invocation, by
\* exhausting its budget or by a provider-level error.
C17_TerminatesByThreeWays ==
    /\ \A r \in Threads : (pc[r] \in {"while", "for"}) ~> (pc[r] = "responded")
    /\ [](\A r \in Threads :
             pc[r] = "responded"
                => /\ RunState(r) \in {"DONE", "FAILED"}
                   /\ calls[r] <= Max(compute_limit[r], 0)
                   /\ StoppedBy(r) \in {"complete", "budget", "provider"}
                   /\ StoppedBy(r) = "budget" => iterations[r] >= compute_limit[r])

\* the part of it that holds under FairSpec: every run comes to its end
C17_Terminates ==
    \A r \in Threads : (pc[r] \in {"while", "for"}) ~> (pc[r] = "responded")

\* the tool-result at position j answers a call that set key k: a write of k,
\* or a scrape to k that brought content
Sets(msgs, j, k) ==
    \/ /\ Valid(CallOf(msgs, j), "UpdateLocalFileArgs", UpdateParams)
       /\ ArgsOf(CallOf(msgs, j)).file_path = k
    \/ /\ Valid(CallOf(msgs, j), "ScrapeUrlArgs", ScrapeParams)
       /\ ArgsOf(CallOf(msgs, j)).output_file_path = k
       /\ msgs[j].content # ""

\* the keys the run of this transcript has set
KeysSet(msgs) ==
    {k \in Keys : \E j \in ResultPositions(msgs) : Sets(msgs, j, k)}

\* the content the run of this transcript has put last under a key it set
LastContent(msgs, k) ==
    LET j == SetMax({j \in ResultPositions(msgs) : Sets(msgs, j, k)})
    IN  IF CallOf(msgs, j).function.name = "UpdateLocalFileArgs"
        THEN ArgsOf(CallOf(msgs, j)).content
        ELSE msgs[j].content

\* the store holds what the run of this transcript has put there, and no more
StoreOfRun(files, msgs) ==
    /\ DOMAIN files = KeysSet(msgs)
    /\ \A k \in KeysSet(msgs) : files[k] = LastContent(msgs, k)

\* C18: for runs executed one after another on the same process, the store
\* is empty when a run starts, whatever the run before left in it, so the
\* files_in_memory a run returns holds exactly the keys that run's successful
\* scrape and write calls set, each with the last content written under it,
\* and nothing of earlier runs.
C18_RunStartsOnEmptyStore ==
    [][\A r \in Threads :
          /\ (pc[r] = "idle" /\ pc'[r] # "idle") => files_in_memory' = EmptyDict
          /\ pc'[r] \in {"while", "for"} => StoreOfRun(files_in_memory', messages'[r])
          /\ pc'[r] = "responded"
                => StoreOfRun(response'[r].body.files_in_memory, messages'[r])]_vars

\* a run has been answered and has left both keys in the store; the worker
\* is ready for the next run
C18_Witness ==
    \E r \in workers :
        /\ pc[r] = "idle"
        /\ DOMAIN files_in_memory = Keys
        /\ ENABLED Request(r, 1)

\* the stores differ at most in key k, which the second holds
ChangesOnly(files, files2, k) ==
    /\ DOMAIN files2 = DOMAIN files \cup {k}
    /\ \A other \in DOMAIN files \ {k} : files2[other] = files[other]

\* C20: tool effects on the store are framed: read and complete leave the
\* whole store unchanged; a write of key K and a successful scrape to output
\* key K change the value of K only and leave every other key and its content
\* as they were.
C20_ToolEffectsFramed ==
    [][\A r \in Threads :
          (pc[r] = "for" /\ LeavesCall(r)) =>
            /\ (\/ Valid(CurrentCall(r), "ReadLocalFileArgs", ReadParams)
                \/ Valid(CurrentCall(r), "CompleteTaskArgs", CompleteParams))
                  => files_in_memory' = files_in_memory
            /\ Valid(CurrentCall(r), "UpdateLocalFileArgs", UpdateParams)
                  => /\ ChangesOnly(files_in_memory, files_in_memory',
                                    ArgsOf(CurrentCall(r)).file_path)
                     /\ files_in_memory'[ArgsOf(CurrentCall(r)).file_path]
                           = ArgsOf(CurrentCall(r)).content
            /\ Valid(CurrentCall(r), "ScrapeUrlArgs", ScrapeParams)
                  => \/ files_in_memory' = files_in_memory
                     \/ /\ messages'[r][Len(messages'[r])].content # ""
                        /\ ChangesOnly(files_in_memory, files_in_memory',
                                       ArgsOf(CurrentCall(r)).output_file_path)
                        /\ files_in_memory'[ArgsOf(CurrentCall(r)).output_file_path]
                              = messages'[r][Len(messages'[r])].content]_vars

\* the last message answers a scrape that brought content, and the other key
\* still holds what a write had put under it
C20_Witness ==
    \E r \in Threads :
        /\ pc[r] \in {"for", "while"}
        /\ messages[r][Len(messages[r])].role = "tool"
        /\ Valid(CallOf(messages[r], Len(messages[r])), "ScrapeUrlArgs", ScrapeParams)
        /\ messages[r][Len(messages[r])].content # ""
        /\ DOMAIN files_in_memory = Keys
        /\ files_in_memory[DefaultOutputFilePath] = messages[r][Len(messages[r])].content
        /\ \E k \in Keys \ {DefaultOutputFilePath} : files_in_memory[k] \in Contents

-----------------------------------------------------------------------------
(* Two requests served at the same time: the endpoint is a plain def, which *)
(* FastAPI runs in a thread pool, so two run_agent calls interleave between *)
(* any two of their steps.                                                 *)

\* two worker threads
InitConc ==
    /\ workers = Threads
    /\ files_in_memory = EmptyDict
    /\ InitLocals

\* what the provider selects in the two runs: writes and reads of one key
ConcShapes ==
    {[name |-> "UpdateLocalFileArgs",
      arguments |-> UpdateArgsText(DefaultOutputFilePath, c)] : c \in Contents}
    \cup {[name |-> "ReadLocalFileArgs", arguments |-> ReadArgsText(DefaultOutputFilePath)]}

ConcBatches == UNION {[1..n -> ConcShapes] : n \in 1..MaxBatch}

\* each run has one iteration; the provider answers with a batch of ConcBatches
NextConc ==
    \E r \in Threads :
        \/ Request(r, 1)
        \/ LoopEnds(r)
        \/ /\ pc[r] = "while"
           /\ \E batch \in ConcBatches : ProviderTools(r, None, batch)
        \/ ToolCall(r)
        \/ Deliver(r)

SpecConc == InitConc /\ [][NextConc]_vars

\* what run_agent keeps in local variables: main.py:249-251
Private(r) == <<messages[r], iterations[r], break_loop[r]>>

\* C19: two runs executing at the same time share only the store: each
\* run's iteration counter, termination flag and transcript are private (a
\* step of one run leaves those of the other, and the other's position, as
\* they are), while the store is one for both: a read returns what the store
\* holds at that moment, whichever run put it there or cleared it.  (The
\* interleaving the claim describes is C19_Witness.)
C19_RunsShareOnlyTheStore ==
    [][\A r \in Threads :
          /\ \A q \in Threads \ {r} :
                Private(r)' # Private(r) => (Private(q)' = Private(q) /\ pc'[q] = pc[q])
          /\ (/\ pc[r] = "for"
              /\ Valid(CurrentCall(r), "ReadLocalFileArgs", ReadParams)
              /\ LeavesCall(r))
                => messages'[r][Len(messages'[r])].content
                      = DictGet(files_in_memory, ArgsOf(CurrentCall(r)).file_path)]_vars

\* run A wrote C under K, its read of K right after returned something else,
\* and the files_in_memory it returned is not what it wrote
C19_Witness ==
    \E r \in Threads :
        /\ pc[r] = "responded"
        /\ ~StoreOfRun(response[r].body.files_in_memory, messages[r])
        /\ \E w \in ResultPositions(messages[r]) :
              /\ IsWrite(messages[r], w)
              /\ w + 1 \in ResultPositions(messages[r])
              /\ IsRead(messages[r], w + 1, ArgsOf(CallOf(messages[r], w)).file_path)
              /\ messages[r][w + 1].content # ArgsOf(CallOf(messages[r], w)).content

=============================================================================
